---- MODULE Spec2Model ----
(***************************************************************************)
(* Model of the subscription/dispatch engine of example-pubsub.go          *)
(* (sub/subscriber.go) together with the transport calls it consumes       *)
(* (aws client: GetQueueID, ReceiveMessages, ReportSuccessMessage,         *)
(* ReportFailureMessage).                                                   *)
(*                                                                         *)
(* Goroutines of Subscribe:                                                *)
(*   caller   - blocked in `return <-chFatal`                              *)
(*   spawner  - ranges over t.handlers, resolves the queue id, starts one  *)
(*              poll loop per entry                                        *)
(*   loop[q]  - ReceiveMessages / dispatch one worker per message /        *)
(*              wgMessage.Wait                                             *)
(*   worker[q][i] - t.semaphore <- 1, handler, report, deferred            *)
(*              recover / wgMessage.Done / <-t.semaphore                   *)
(* chFatal is unbuffered: a send completes only together with the single   *)
(* receive of the caller.                                                  *)
(***************************************************************************)
EXTENDS Integers, Sequences, FiniteSets, TLC

\* ------------------------------------------------------------- bounds
MaxLimit == 2       \* largest ConcurrencyMessageHandleLimit tried
MaxBatch == 1       \* largest batch one ReceiveMessages returns here

Queues == {"A", "B"}
Limits == 0..MaxLimit
\* the (handler, HandlerOption.WaitTime) pairs SetHandler is called with
Registrations == {<<"h1", 0>>, <<"h2", 1>>, <<"h1", 0 - 1>>}
SlotCount == IF MaxBatch < 3 THEN 3 ELSE MaxBatch
Slots == 1..SlotCount

VARIABLES
    mainPc,      \* caller: "new", "failed", "registering", "subscribed", "returned"
    call,        \* the caller's last NewSubscriber / SetHandler call and its error
    option,      \* t.option.ConcurrencyMessageHandleLimit
    semCap,      \* cap(t.semaphore)
    semaphore,   \* len(t.semaphore)
    handlers,    \* t.handlers: queue name -> [handler, WaitTime]
    spawner,     \* the goroutine of Subscribe that ranges over t.handlers
    loop,        \* per queue name: the poll loop goroutine
    wg,          \* per queue name: counter of the current wgMessage
    worker,      \* per queue name and batch index: the dispatch goroutine
    lingering,   \* workers of earlier batches past wgMessage.Done, before <-t.semaphore
    retval,      \* value Subscribe returned
    firstFatal   \* the fatal error raised first

vars == <<mainPc, call, option, semCap, semaphore, handlers, spawner, loop, wg,
          worker, lingering, retval, firstFatal>>

\* ------------------------------------------------------------- values
\* error values: which call produced it, and for which queue
Nil == [src |-> "nil", q |-> "-"]
Err(src, q) == [src |-> src, q |-> q]
ConfigErr(text) == [src |-> text, q |-> "-"]

\* errors.New(fmt.Sprint(info)): the recovered panic value turned into an error
Recovered(info) == [src |-> "recovered", q |-> info.q]
PanicValue(q) == [panic |-> "handler", q |-> q]

\* client.GetQueueID: the queue URL the transport resolves a name to
GetQueueID(name) == <<"url", name>>

\* client.ReceiveMessages builds one ReceiveMessage per SQS message
ReceiveMessage(queueID, i) ==
    [MessageID |-> <<"mid", queueID, i>>, ReceiptHandle |-> <<"rh", queueID, i>>]

NoCall == [op |-> "none"]
NoBinding == [handler |-> "-", WaitTime |-> 0]
IdleLoop == [pc |-> "none", queueID |-> <<>>, handler |-> NoBinding, n |-> 0, next |-> 1]
NoWorker == [pc |-> "none", invoked |-> "-", outcome |-> "-", calls |-> <<>>]
IdleSpawner == [pc |-> "none", todo |-> {}, err |-> Nil]

HoldingPcs == {"handling", "report_success", "report_failure", "send_fatal",
               "send_recovered", "wg_done", "release"}

\* workers between `t.semaphore <- 1` and `<-t.semaphore`
Holding == {qi \in Queues \X Slots : worker[qi[1]][qi[2]].pc \in HoldingPcs}
Executing == Cardinality(Holding) + lingering

Init ==
    /\ mainPc = "new"
    /\ call = NoCall
    /\ option = 0
    /\ semCap = 0
    /\ semaphore = 0
    /\ handlers = <<>>
    /\ spawner = IdleSpawner
    /\ loop = [q \in Queues |-> IdleLoop]
    /\ wg = [q \in Queues |-> 0]
    /\ worker = [q \in Queues |-> [i \in Slots |-> NoWorker]]
    /\ lingering = 0
    /\ retval = Nil
    /\ firstFatal = Nil

engineVars == <<spawner, loop, wg, worker, lingering, retval, firstFatal>>

\* a fatal error comes into being (ghost bookkeeping of the order)
Raise(e) ==
    firstFatal' = IF firstFatal = Nil THEN e ELSE firstFatal

\* ------------------------------------------------------------- construction
\* mutant of NewSubscriber: the check lets a limit of 0 through
NewSubscriberOffByOne(limit) ==
    /\ mainPc = "new"
    /\ IF limit < 0
       THEN /\ mainPc' = "failed"
            /\ call' = [op |-> "NewSubscriber", limit |-> limit,
                        err |-> ConfigErr("set 1 or more for ConcurrencyMessageHandleLimit")]
            /\ UNCHANGED <<option, semCap, semaphore, handlers>>
       ELSE /\ mainPc' = "registering"
            /\ call' = [op |-> "NewSubscriber", limit |-> limit, err |-> Nil]
            /\ option' = limit
            /\ semCap' = limit
            /\ semaphore' = 0
            /\ handlers' = <<>>
    /\ UNCHANGED engineVars

NewSubscriber(limit) ==
    /\ mainPc = "new"
    /\ IF limit < 1
       THEN /\ mainPc' = "failed"
            /\ call' = [op |-> "NewSubscriber", limit |-> limit,
                        err |-> ConfigErr("set 1 or more for ConcurrencyMessageHandleLimit")]
            /\ UNCHANGED <<option, semCap, semaphore, handlers>>
       ELSE /\ mainPc' = "registering"
            /\ call' = [op |-> "NewSubscriber", limit |-> limit, err |-> Nil]
            /\ option' = limit
            /\ semCap' = limit
            /\ semaphore' = 0
            /\ handlers' = <<>>
    /\ UNCHANGED engineVars

\* mutant of SetHandler: the binding is stored before WaitTime is checked
SetHandlerStoreFirst(queueName, handler, waitTime) ==
    /\ mainPc = "registering"
    /\ handlers' = [n \in DOMAIN handlers \cup {queueName} |->
                      IF n = queueName
                      THEN [handler |-> handler, WaitTime |-> waitTime]
                      ELSE handlers[n]]
    /\ call' = [op |-> "SetHandler", queueName |-> queueName,
                handler |-> handler, waitTime |-> waitTime,
                err |-> IF waitTime < 0 THEN ConfigErr("set 0 or more for WaitTime")
                                        ELSE Nil]
    /\ UNCHANGED <<mainPc, option, semCap, semaphore>>
    /\ UNCHANGED engineVars

SetHandler(queueName, handler, waitTime) ==
    /\ mainPc = "registering"
    /\ IF waitTime < 0
       THEN /\ call' = [op |-> "SetHandler", queueName |-> queueName,
                        handler |-> handler, waitTime |-> waitTime,
                        err |-> ConfigErr("set 0 or more for WaitTime")]
            /\ UNCHANGED handlers
       ELSE /\ call' = [op |-> "SetHandler", queueName |-> queueName,
                        handler |-> handler, waitTime |-> waitTime, err |-> Nil]
            /\ handlers' = [n \in DOMAIN handlers \cup {queueName} |->
                              IF n = queueName
                              THEN [handler |-> handler, WaitTime |-> waitTime]
                              ELSE handlers[n]]
    /\ UNCHANGED <<mainPc, option, semCap, semaphore>>
    /\ UNCHANGED engineVars

\* Subscribe is called: chFatal is made, the spawner goroutine starts and the
\* caller blocks in <-chFatal
Subscribe ==
    /\ mainPc = "registering"
    /\ mainPc' = "subscribed"
    /\ spawner' = [pc |-> IF DOMAIN handlers = {} THEN "done" ELSE "range",
                   todo |-> DOMAIN handlers, err |-> Nil]
    /\ call' = NoCall
    /\ UNCHANGED <<option, semCap, semaphore, handlers, loop, wg, worker,
                   lingering, retval, firstFatal>>

\* ------------------------------------------------------------- spawner
\* mutant of SpawnPollLoop: the spawner returns after starting its first loop
SpawnPollLoopOnce(queueName, ok) ==
    /\ spawner.pc = "range"
    /\ queueName \in spawner.todo
    /\ IF ok
       THEN /\ loop' = [loop EXCEPT ![queueName] =
                           [pc |-> "receive", queueID |-> GetQueueID(queueName),
                            handler |-> handlers[queueName], n |-> 0, next |-> 1]]
            /\ spawner' = [spawner EXCEPT !.todo = @ \ {queueName}, !.pc = "done"]
            /\ UNCHANGED firstFatal
       ELSE /\ spawner' = [spawner EXCEPT !.pc = "send_fatal",
                                          !.err = Err("GetQueueID", queueName)]
            /\ Raise(Err("GetQueueID", queueName))
            /\ UNCHANGED loop
    /\ UNCHANGED <<mainPc, call, option, semCap, semaphore, handlers, wg, worker,
                   lingering, retval>>

\* one iteration of `for queueName, handler := range t.handlers`
SpawnPollLoop(queueName, ok) ==
    /\ spawner.pc = "range"
    /\ queueName \in spawner.todo
    /\ IF ok
       THEN /\ loop' = [loop EXCEPT ![queueName] =
                           [pc |-> "receive", queueID |-> GetQueueID(queueName),
                            handler |-> handlers[queueName], n |-> 0, next |-> 1]]
            /\ spawner' = [spawner EXCEPT
                             !.todo = @ \ {queueName},
                             !.pc = IF spawner.todo = {queueName} THEN "done" ELSE "range"]
            /\ UNCHANGED firstFatal
       ELSE /\ spawner' = [spawner EXCEPT !.pc = "send_fatal",
                                          !.err = Err("GetQueueID", queueName)]
            /\ Raise(Err("GetQueueID", queueName))
            /\ UNCHANGED loop
    /\ UNCHANGED <<mainPc, call, option, semCap, semaphore, handlers, wg, worker,
                   lingering, retval>>

\* ------------------------------------------------------------- poll loop
\* mutant of HandlerOf: the loops read one shared binding instead of their own
\* parameter
HandlerOfShared(queueName) == handlers[CHOOSE n \in DOMAIN handlers : TRUE]

\* the binding struct the poll loop goroutine received as its parameter
HandlerOf(queueName) == loop[queueName].handler

\* mutant of ReceiveMessages: a fetch error ends the loop without being sent
\* on chFatal
ReceiveMessagesDropError(q, n, ok) ==
    /\ loop[q].pc = "receive"
    /\ IF ok
       THEN /\ loop' = [loop EXCEPT ![q].n = n, ![q].next = 1,
                                    ![q].pc = IF n = 0 THEN "wait" ELSE "dispatch"]
            /\ wg' = [wg EXCEPT ![q] = 0]
            /\ worker' = [worker EXCEPT ![q] = [i \in Slots |-> NoWorker]]
            /\ lingering' = lingering +
                              Cardinality({i \in Slots : worker[q][i].pc = "release"})
            /\ UNCHANGED firstFatal
       ELSE /\ loop' = [loop EXCEPT ![q].pc = "stopped"]
            /\ Raise(Err("ReceiveMessages", q))
            /\ UNCHANGED <<wg, worker, lingering>>
    /\ UNCHANGED <<mainPc, call, option, semCap, semaphore, handlers, spawner, retval>>

\* res, err := t.client.ReceiveMessages(...); on success a fresh wgMessage
ReceiveMessages(q, n, ok) ==
    /\ loop[q].pc = "receive"
    /\ IF ok
       THEN /\ loop' = [loop EXCEPT ![q].n = n, ![q].next = 1,
                                    ![q].pc = IF n = 0 THEN "wait" ELSE "dispatch"]
            /\ wg' = [wg EXCEPT ![q] = 0]
            /\ worker' = [worker EXCEPT ![q] = [i \in Slots |-> NoWorker]]
            /\ lingering' = lingering +
                              Cardinality({i \in Slots : worker[q][i].pc = "release"})
            /\ UNCHANGED firstFatal
       ELSE /\ loop' = [loop EXCEPT ![q].pc = "send_fatal"]
            /\ Raise(Err("ReceiveMessages", q))
            /\ UNCHANGED <<wg, worker, lingering>>
    /\ UNCHANGED <<mainPc, call, option, semCap, semaphore, handlers, spawner, retval>>

\* mutant of Dispatch: the worker is started without wgMessage.Add(1)
DispatchNoAdd(q) ==
    /\ loop[q].pc = "dispatch"
    /\ LET i == loop[q].next IN
         /\ worker' = [worker EXCEPT ![q][i] = [NoWorker EXCEPT !.pc = "acquire"]]
         /\ loop' = [loop EXCEPT ![q].next = i + 1,
                                 ![q].pc = IF i = loop[q].n THEN "wait" ELSE "dispatch"]
    /\ UNCHANGED <<mainPc, call, option, semCap, semaphore, handlers, spawner, wg,
                   lingering, retval, firstFatal>>

\* one iteration of `for _, msg := range res.ReceiveMessages`:
\* wgMessage.Add(1); go func(msg) {...}(msg)
Dispatch(q) ==
    /\ loop[q].pc = "dispatch"
    /\ LET i == loop[q].next IN
         /\ wg' = [wg EXCEPT ![q] = @ + 1]
         /\ worker' = [worker EXCEPT ![q][i] = [NoWorker EXCEPT !.pc = "acquire"]]
         /\ loop' = [loop EXCEPT ![q].next = i + 1,
                                 ![q].pc = IF i = loop[q].n THEN "wait" ELSE "dispatch"]
    /\ UNCHANGED <<mainPc, call, option, semCap, semaphore, handlers, spawner,
                   lingering, retval, firstFatal>>

\* mutant of Wait: the loop goes round without waiting for the batch
WaitNoBarrier(q) ==
    /\ loop[q].pc = "wait"
    /\ loop' = [loop EXCEPT ![q].pc = "receive", ![q].n = 0, ![q].next = 1]
    /\ UNCHANGED <<mainPc, call, option, semCap, semaphore, handlers, spawner, wg,
                   worker, lingering, retval, firstFatal>>

\* wgMessage.Wait() returns and the loop goes round
Wait(q) ==
    /\ loop[q].pc = "wait"
    /\ wg[q] = 0
    /\ loop' = [loop EXCEPT ![q].pc = "receive", ![q].n = 0, ![q].next = 1]
    /\ UNCHANGED <<mainPc, call, option, semCap, semaphore, handlers, spawner, wg,
                   worker, lingering, retval, firstFatal>>

\* ------------------------------------------------------------- dispatch worker
\* mutant of Acquire: the send on t.semaphore does not block on a full channel
AcquireUnbounded(q, i) ==
    /\ worker[q][i].pc = "acquire"
    /\ semaphore' = semaphore + 1
    /\ worker' = [worker EXCEPT ![q][i].pc = "handling",
                                ![q][i].invoked = loop[q].handler.handler]
    /\ UNCHANGED <<mainPc, call, option, semCap, handlers, spawner, loop, wg,
                   lingering, retval, firstFatal>>

\* t.semaphore <- 1, then the handler is entered
Acquire(q, i) ==
    /\ worker[q][i].pc = "acquire"
    /\ semaphore < semCap
    /\ semaphore' = semaphore + 1
    /\ worker' = [worker EXCEPT ![q][i].pc = "handling",
                                ![q][i].invoked = HandlerOf(q).handler]
    /\ UNCHANGED <<mainPc, call, option, semCap, handlers, spawner, loop, wg,
                   lingering, retval, firstFatal>>

\* mutant of HandlerReturn: an error returned by the handler is escalated to
\* chFatal like a panic
HandlerReturnErrFatal(q, i, outcome) ==
    /\ worker[q][i].pc = "handling"
    /\ worker' = [worker EXCEPT
                    ![q][i].outcome = outcome,
                    ![q][i].pc = IF outcome = "ok" THEN "report_success"
                                                  ELSE "send_recovered"]
    /\ IF outcome = "ok"
       THEN UNCHANGED firstFatal
       ELSE Raise(Recovered(PanicValue(q)))
    /\ UNCHANGED <<mainPc, call, option, semCap, semaphore, handlers, spawner, loop,
                   wg, lingering, retval>>

\* handler.handler(msg.MessageID, msg.Body) ends: nil, an error, or a panic
\* (a panic runs the deferred function, whose recover sends on chFatal)
HandlerReturn(q, i, outcome) ==
    /\ worker[q][i].pc = "handling"
    /\ worker' = [worker EXCEPT
                    ![q][i].outcome = outcome,
                    ![q][i].pc = CASE outcome = "ok" -> "report_success"
                                   [] outcome = "err" -> "report_failure"
                                   [] OTHER -> "send_recovered"]
    /\ IF outcome = "panic"
       THEN Raise(Recovered(PanicValue(q)))
       ELSE UNCHANGED firstFatal
    /\ UNCHANGED <<mainPc, call, option, semCap, semaphore, handlers, spawner, loop,
                   wg, lingering, retval>>

\* mutant of ReportCall: a handler error is acknowledged like a success
ReportCallAlwaysSuccess(q, i) ==
    [op |-> "ReportSuccessMessage", QueueID |-> loop[q].queueID,
     ReceiptHandle |-> ReceiveMessage(loop[q].queueID, i).ReceiptHandle]

\* the arguments of the report call the worker makes for message i of queue q
ReportCall(q, i) ==
    LET msg == ReceiveMessage(loop[q].queueID, i) IN
    IF worker[q][i].pc = "report_failure"
    THEN [op |-> "ReportFailureMessage", QueueID |-> loop[q].queueID,
          ReceiptHandle |-> msg.ReceiptHandle, WaitTime |-> HandlerOf(q).WaitTime]
    ELSE [op |-> "ReportSuccessMessage", QueueID |-> loop[q].queueID,
          ReceiptHandle |-> msg.ReceiptHandle]

\* mutant of Report: a failed report is dropped, the worker goes on to its
\* deferred function without sending on chFatal
ReportDropError(q, i, ok) ==
    /\ worker[q][i].pc \in {"report_success", "report_failure"}
    /\ worker' = [worker EXCEPT
                    ![q][i].calls = Append(@, ReportCall(q, i)),
                    ![q][i].pc = "wg_done"]
    /\ IF ok
       THEN UNCHANGED firstFatal
       ELSE Raise(Err(ReportCall(q, i).op, q))
    /\ UNCHANGED <<mainPc, call, option, semCap, semaphore, handlers, spawner, loop,
                   wg, lingering, retval>>

\* t.client.ReportFailureMessage / ReportSuccessMessage returns
Report(q, i, ok) ==
    /\ worker[q][i].pc \in {"report_success", "report_failure"}
    /\ worker' = [worker EXCEPT
                    ![q][i].calls = Append(@, ReportCall(q, i)),
                    ![q][i].pc = IF ok THEN "wg_done" ELSE "send_fatal"]
    /\ IF ok
       THEN UNCHANGED firstFatal
       ELSE Raise(Err(ReportCall(q, i).op, q))
    /\ UNCHANGED <<mainPc, call, option, semCap, semaphore, handlers, spawner, loop,
                   wg, lingering, retval>>

\* the error a worker blocked in `chFatal <- ...` is sending
WorkerErr(q, i) ==
    IF worker[q][i].pc = "send_recovered"
    THEN Recovered(PanicValue(q))
    ELSE Err(worker[q][i].calls[Len(worker[q][i].calls)].op, q)

\* mutant of Done: the deferred function does not call wgMessage.Done()
DoneNoSignal(q, i) ==
    /\ worker[q][i].pc = "wg_done"
    /\ worker' = [worker EXCEPT ![q][i] = [NoWorker EXCEPT !.pc = "release"]]
    /\ UNCHANGED <<mainPc, call, option, semCap, semaphore, handlers, spawner, loop,
                   wg, lingering, retval, firstFatal>>

\* deferred: wgMessage.Done()
Done(q, i) ==
    /\ worker[q][i].pc = "wg_done"
    /\ wg' = [wg EXCEPT ![q] = @ - 1]
    /\ worker' = [worker EXCEPT ![q][i] = [NoWorker EXCEPT !.pc = "release"]]
    /\ UNCHANGED <<mainPc, call, option, semCap, semaphore, handlers, spawner, loop,
                   lingering, retval, firstFatal>>

\* mutant of Release: the worker ends without taking its token back out of
\* t.semaphore
ReleaseLeak(q, i) ==
    /\ worker[q][i].pc = "release"
    /\ worker' = [worker EXCEPT ![q][i] = NoWorker]
    /\ UNCHANGED <<mainPc, call, option, semCap, semaphore, handlers, spawner, loop,
                   wg, lingering, retval, firstFatal>>

\* deferred: <-t.semaphore
Release(q, i) ==
    /\ worker[q][i].pc = "release"
    /\ semaphore > 0
    /\ semaphore' = semaphore - 1
    /\ worker' = [worker EXCEPT ![q][i] = NoWorker]
    /\ UNCHANGED <<mainPc, call, option, semCap, handlers, spawner, loop, wg,
                   lingering, retval, firstFatal>>

\* mutant of ReleaseLingering: the receive from t.semaphore drains every token
\* that is in the channel
ReleaseLingeringDrain ==
    /\ lingering > 0
    /\ semaphore > 0
    /\ semaphore' = 0
    /\ lingering' = lingering - 1
    /\ UNCHANGED <<mainPc, call, option, semCap, handlers, spawner, loop, wg, worker,
                   retval, firstFatal>>

\* <-t.semaphore of a worker whose batch the loop has already left behind
ReleaseLingering ==
    /\ lingering > 0
    /\ semaphore > 0
    /\ semaphore' = semaphore - 1
    /\ lingering' = lingering - 1
    /\ UNCHANGED <<mainPc, call, option, semCap, handlers, spawner, loop, wg, worker,
                   retval, firstFatal>>

\* ------------------------------------------------------------- chFatal
\* mutant of ReturnFromSpawner: the receive also completes, with nil, once the
\* spawner has finished (chFatal closed when the spawner ends)
ReturnWhenSpawned ==
    /\ mainPc = "subscribed"
    /\ spawner.pc \in {"send_fatal", "done"}
    /\ mainPc' = "returned"
    /\ retval' = spawner.err
    /\ spawner' = [spawner EXCEPT !.pc = "done"]
    /\ UNCHANGED <<call, option, semCap, semaphore, handlers, loop, wg, worker,
                   lingering, firstFatal>>

\* `return <-chFatal` meets the send of the spawner (GetQueueID failed)
ReturnFromSpawner ==
    /\ mainPc = "subscribed"
    /\ spawner.pc = "send_fatal"
    /\ mainPc' = "returned"
    /\ retval' = spawner.err
    /\ spawner' = [spawner EXCEPT !.pc = "done"]
    /\ UNCHANGED <<call, option, semCap, semaphore, handlers, loop, wg, worker,
                   lingering, firstFatal>>

\* mutant of ReturnFromLoop: the `return` after the send is missing, the loop
\* goes round to the next fetch
ReturnFromLoopContinue(q) ==
    /\ mainPc = "subscribed"
    /\ loop[q].pc = "send_fatal"
    /\ mainPc' = "returned"
    /\ retval' = Err("ReceiveMessages", q)
    /\ loop' = [loop EXCEPT ![q].pc = "receive"]
    /\ UNCHANGED <<call, option, semCap, semaphore, handlers, spawner, wg, worker,
                   lingering, firstFatal>>

\* ... meets the send of a poll loop (ReceiveMessages failed); the loop returns
ReturnFromLoop(q) ==
    /\ mainPc = "subscribed"
    /\ loop[q].pc = "send_fatal"
    /\ mainPc' = "returned"
    /\ retval' = Err("ReceiveMessages", q)
    /\ loop' = [loop EXCEPT ![q].pc = "stopped"]
    /\ UNCHANGED <<call, option, semCap, semaphore, handlers, spawner, wg, worker,
                   lingering, firstFatal>>

\* ... meets the send of a worker (report failed, or panic recovered)
ReturnFromWorker(q, i) ==
    /\ mainPc = "subscribed"
    /\ worker[q][i].pc \in {"send_fatal", "send_recovered"}
    /\ mainPc' = "returned"
    /\ retval' = WorkerErr(q, i)
    /\ worker' = [worker EXCEPT ![q][i].pc = "wg_done"]
    /\ UNCHANGED <<call, option, semCap, semaphore, handlers, spawner, loop, wg,
                   lingering, firstFatal>>

\* ------------------------------------------------------------- specification
Outcomes == {"ok", "err", "panic"}

\* the errors of the goroutines blocked in a send on chFatal
PendingErrors ==
    (IF spawner.pc = "send_fatal" THEN {spawner.err} ELSE {})
    \cup {Err("ReceiveMessages", q) : q \in {n \in Queues : loop[n].pc = "send_fatal"}}
    \cup {WorkerErr(qi[1], qi[2]) :
            qi \in {x \in Queues \X Slots :
                      worker[x[1]][x[2]].pc \in {"send_fatal", "send_recovered"}}}

\* the receive of `return <-chFatal`, whoever the sender is
SubscribeReturns ==
    \/ ReturnFromSpawner
    \/ \E q \in Queues : ReturnFromLoop(q)
    \/ \E q \in Queues, i \in Slots : ReturnFromWorker(q, i)

\* the goroutines of Subscribe, every call of theirs free to fail
NextEngine ==
    \/ \E q \in Queues, ok \in BOOLEAN : SpawnPollLoop(q, ok)
    \/ \E q \in Queues, n \in 0..MaxBatch, ok \in BOOLEAN : ReceiveMessages(q, n, ok)
    \/ \E q \in Queues : Dispatch(q)
    \/ \E q \in Queues : Wait(q)
    \/ \E q \in Queues, i \in Slots : Acquire(q, i)
    \/ \E q \in Queues, i \in Slots, o \in Outcomes : HandlerReturn(q, i, o)
    \/ \E q \in Queues, i \in Slots, ok \in BOOLEAN : Report(q, i, ok)
    \/ \E q \in Queues, i \in Slots : Done(q, i)
    \/ \E q \in Queues, i \in Slots : Release(q, i)
    \/ ReleaseLingering
    \/ ReturnFromSpawner
    \/ \E q \in Queues : ReturnFromLoop(q)
    \/ \E q \in Queues, i \in Slots : ReturnFromWorker(q, i)

Next ==
    \/ \E limit \in Limits : NewSubscriber(limit)
    \/ \E q \in Queues, r \in Registrations : SetHandler(q, r[1], r[2])
    \/ Subscribe
    \/ \E q \in Queues, ok \in BOOLEAN : SpawnPollLoop(q, ok)
    \/ \E q \in Queues, n \in 0..MaxBatch, ok \in BOOLEAN : ReceiveMessages(q, n, ok)
    \/ \E q \in Queues : Dispatch(q)
    \/ \E q \in Queues : Wait(q)
    \/ \E q \in Queues, i \in Slots : Acquire(q, i)
    \/ \E q \in Queues, i \in Slots, o \in Outcomes : HandlerReturn(q, i, o)
    \/ \E q \in Queues, i \in Slots, ok \in BOOLEAN : Report(q, i, ok)
    \/ \E q \in Queues, i \in Slots : Done(q, i)
    \/ \E q \in Queues, i \in Slots : Release(q, i)
    \/ ReleaseLingering
    \/ ReturnFromSpawner
    \/ \E q \in Queues : ReturnFromLoop(q)
    \/ \E q \in Queues, i \in Slots : ReturnFromWorker(q, i)

Spec == Init /\ [][Next]_vars

\* ---- the engine with a transport that never fails and handlers that return
LoopStep(q) ==
    \/ \E n \in 0..MaxBatch : ReceiveMessages(q, n, TRUE)
    \/ Dispatch(q)
    \/ Wait(q)

WorkerStep(q, i) ==
    \/ \E o \in {"ok", "err"} : HandlerReturn(q, i, o)
    \/ Report(q, i, TRUE)
    \/ Done(q, i)
    \/ Release(q, i)

\* the batch indices a fetch of at most MaxBatch messages can fill
BatchSlots == 1..MaxBatch

NextClean ==
    \/ \E limit \in Limits : NewSubscriber(limit)
    \/ \E q \in Queues, r \in Registrations : SetHandler(q, r[1], r[2])
    \/ Subscribe
    \/ \E q \in Queues : SpawnPollLoop(q, TRUE)
    \/ \E q \in Queues : LoopStep(q)
    \/ \E q \in Queues, i \in BatchSlots : Acquire(q, i)
    \/ \E q \in Queues, i \in BatchSlots : WorkerStep(q, i)
    \/ ReleaseLingering

\* every goroutine that can run does run; a sender blocked on t.semaphore is
\* served in arrival order by the channel, so a permit that keeps coming free
\* reaches it
CleanFairness ==
    /\ WF_vars(\E q \in Queues : SpawnPollLoop(q, TRUE))
    /\ \A q \in Queues : WF_vars(LoopStep(q))
    /\ \A q \in Queues, i \in BatchSlots : WF_vars(WorkerStep(q, i))
    /\ \A q \in Queues, i \in BatchSlots : SF_vars(Acquire(q, i))
    /\ WF_vars(ReleaseLingering)

CleanSpec == Init /\ [][NextClean]_vars /\ CleanFairness

\* ---- two queues "A" and "B" registered and Subscribe called; a fetch returns
\* up to 3 messages on "A" and up to 1 on "B"; nothing fails
ScenarioBatch == [q \in Queues |-> IF q = "A" THEN 3 ELSE 1]

ScenarioInit ==
    /\ mainPc = "subscribed"
    /\ call = NoCall
    /\ option \in 1..MaxLimit
    /\ semCap = option
    /\ semaphore = 0
    /\ handlers = [q \in Queues |-> IF q = "A"
                                     THEN [handler |-> "h1", WaitTime |-> 0]
                                     ELSE [handler |-> "h2", WaitTime |-> 1]]
    /\ spawner = [pc |-> "range", todo |-> Queues, err |-> Nil]
    /\ loop = [q \in Queues |-> IdleLoop]
    /\ wg = [q \in Queues |-> 0]
    /\ worker = [q \in Queues |-> [i \in Slots |-> NoWorker]]
    /\ lingering = 0
    /\ retval = Nil
    /\ firstFatal = Nil

ScenarioLoopStep(q) ==
    \/ \E n \in 0..ScenarioBatch[q] : ReceiveMessages(q, n, TRUE)
    \/ Dispatch(q)
    \/ Wait(q)

NextScenario ==
    \/ \E q \in Queues : SpawnPollLoop(q, TRUE)
    \/ \E q \in Queues : ScenarioLoopStep(q)
    \/ \E q \in Queues, i \in Slots : Acquire(q, i)
    \/ \E q \in Queues, i \in Slots : WorkerStep(q, i)
    \/ ReleaseLingering

ScenarioFairness ==
    /\ WF_vars(\E q \in Queues : SpawnPollLoop(q, TRUE))
    /\ \A q \in Queues : WF_vars(ScenarioLoopStep(q))
    /\ \A q \in Queues, i \in Slots : WF_vars(WorkerStep(q, i))
    /\ \A q \in Queues, i \in Slots : SF_vars(Acquire(q, i))
    /\ WF_vars(ReleaseLingering)

ScenarioSpec == ScenarioInit /\ [][NextScenario]_vars /\ ScenarioFairness

\* ---- the same two registrations with Subscribe called, every call free to
\* fail; the caller is parked in the receive, so a blocked sender is met at once
EngineSpec == ScenarioInit /\ [][NextEngine]_vars /\ WF_vars(SubscribeReturns)

\* ------------------------------------------------------------- C1
\* C1: in every reachable state the number of workers between permit acquire
\* and permit release, summed over all queues, is at most
\* ConcurrencyMessageHandleLimit.
C1_LimitRespected == Executing <= option

\* the limit is saturated while a further worker waits for a permit
C1_Witness ==
    /\ option >= 1
    /\ Executing = option
    /\ \E q \in Queues, i \in Slots : worker[q][i].pc = "acquire"
    /\ \E q \in Queues, i \in Slots : worker[q][i].pc = "handling"

\* ------------------------------------------------------------- C2
\* what the worker of message i of queue q has to report, from the registry
\* and the transport's view of the message
ExpectedSuccess(q, i) ==
    [op |-> "ReportSuccessMessage", QueueID |-> GetQueueID(q),
     ReceiptHandle |-> ReceiveMessage(GetQueueID(q), i).ReceiptHandle]
ExpectedFailure(q, i) ==
    [op |-> "ReportFailureMessage", QueueID |-> GetQueueID(q),
     ReceiptHandle |-> ReceiveMessage(GetQueueID(q), i).ReceiptHandle,
     WaitTime |-> handlers[q].WaitTime]
Reported(q, i) == worker[q][i].pc \in {"wg_done", "send_fatal"}

\* C2: a message whose handler returned success gets exactly one
\* ReportSuccessMessage call and no ReportFailureMessage call, with its receipt
\* handle and its queue's identifier; a message whose handler returned an error
\* gets exactly one ReportFailureMessage call and no ReportSuccessMessage call,
\* with its receipt handle, its queue's identifier and the queue's registered
\* WaitTime. Before the report, and after a panic, no call has been made.
C2_ExactlyOneReport ==
    \A q \in Queues, i \in Slots :
        LET w == worker[q][i] IN
        /\ Len(w.calls) <= 1
        /\ (Reported(q, i) /\ w.outcome = "ok") => w.calls = <<ExpectedSuccess(q, i)>>
        /\ (Reported(q, i) /\ w.outcome = "err") => w.calls = <<ExpectedFailure(q, i)>>
        /\ (~Reported(q, i) \/ w.outcome = "panic") => w.calls = <<>>

\* both outcomes have been reported, the failure with a WaitTime that is not 0
C2_Witness ==
    \E q1 \in Queues, q2 \in Queues, i \in Slots, j \in Slots :
        /\ worker[q1][i].pc = "wg_done" /\ worker[q1][i].outcome = "err"
        /\ handlers[q1].WaitTime > 0
        /\ worker[q2][j].pc = "wg_done" /\ worker[q2][j].outcome = "ok"

\* ------------------------------------------------------------- C3
\* a worker that has passed wgMessage.Done (or no worker at all)
Drained(q, i) == worker[q][i].pc \in {"none", "release"}

\* C3: a poll loop is never in (or about to issue) its next ReceiveMessages call
\* while a message of its current batch has not reached its terminal outcome.
C3_FetchAfterBatch ==
    \A q \in Queues : loop[q].pc = "receive" => \A i \in Slots : Drained(q, i)

\* the loop is fetching again right after a batch: a worker of that batch has
\* signalled Done and still holds its permit
C3_Witness ==
    \E q \in Queues, i \in Slots : loop[q].pc = "receive" /\ worker[q][i].pc = "release"

\* ------------------------------------------------------------- C4
TransportSources == {"GetQueueID", "ReceiveMessages", "ReportSuccessMessage",
                     "ReportFailureMessage"}

\* C4 as stated: every transport error a call returned is the error Subscribe
\* returns (so once Subscribe has returned, no other transport error is left
\* undelivered).
C4_EveryErrorReturned ==
    mainPc = "returned" =>
        \A e \in PendingErrors : e.src \in TransportSources => e = retval

\* C4 (amended): once a fatal error exists Subscribe returns; what it returns is
\* the error of a goroutine blocked in its send on chFatal at that moment (the
\* first one delivered), it returns at most once, and the value it returned
\* never changes: a transport error met after or beside the delivered one is
\* never returned.
C4_FirstDeliveredReturned ==
    /\ [](firstFatal # Nil => (mainPc = "returned" \/ PendingErrors # {}))
    /\ [][(mainPc = "subscribed" /\ mainPc' = "returned") => retval' \in PendingErrors]_vars
    /\ [][mainPc = "returned" => (mainPc' = "returned" /\ retval' = retval)]_vars
    /\ (firstFatal # Nil ~> mainPc = "returned")

\* Subscribe has returned the ReceiveMessages error of one queue while the
\* ReceiveMessages error of the other queue stays undelivered
C4_Witness ==
    /\ mainPc = "returned"
    /\ retval.src = "ReceiveMessages"
    /\ \E e \in PendingErrors : e.src \in TransportSources /\ e # retval

\* ------------------------------------------------------------- C5
FatalSources == TransportSources \cup {"recovered"}

\* C5: Subscribe never returns success: it has returned only if a fatal error
\* was raised and delivered, what it returned is that non-nil error, and until
\* then (for ever, when no fatal error occurs, as with an empty registry) it has
\* returned nothing.
C5_NeverReturnsSuccess ==
    /\ mainPc = "returned" =>
          (retval # Nil /\ retval.src \in FatalSources /\ firstFatal # Nil)
    /\ mainPc # "returned" => retval = Nil
    /\ firstFatal = Nil => mainPc # "returned"
    /\ (mainPc \in {"subscribed", "returned"} /\ DOMAIN handlers = {}) =>
          (mainPc = "subscribed" /\ firstFatal = Nil)

\* Subscribe has returned the error made from a recovered panic
C5_Witness == mainPc = "returned" /\ retval.src = "recovered"

\* ------------------------------------------------------------- C6
\* C6: a handler is only ever invoked by a worker of the queue it is bound to:
\* the worker of a message fetched with queue q's identifier runs the handler
\* registered for q.
C6_OwnHandlerOnly ==
    \A q \in Queues :
        /\ loop[q].pc # "none" =>
              (q \in DOMAIN handlers /\ loop[q].queueID = GetQueueID(q))
        /\ \A i \in Slots :
              worker[q][i].invoked # "-" =>
                  (q \in DOMAIN handlers /\ worker[q][i].invoked = handlers[q].handler)

\* both queues, bound to different handlers, have a handler running
C6_Witness ==
    /\ DOMAIN handlers = Queues
    /\ \A q \in Queues : \E i \in Slots : worker[q][i].pc = "handling"
    /\ \E q1 \in Queues, q2 \in Queues : handlers[q1].handler # handlers[q2].handler

\* ------------------------------------------------------------- C7
\* C7: with handlers that return nil or an error and a transport that does not
\* fail, no fatal error ever exists, nothing is sent on chFatal, Subscribe does
\* not return, and after a handler returned an error the poll loop of that queue
\* comes to fetch the next batch.
C7_HandlerErrorNotFatal ==
    /\ [](firstFatal = Nil /\ mainPc # "returned" /\ PendingErrors = {})
    /\ \A q \in Queues :
          (\E i \in Slots : worker[q][i].outcome = "err") ~> (loop[q].pc = "receive")

\* a handler returned an error, ReportFailureMessage succeeded, and Subscribe is
\* still blocked
C7_Witness ==
    \E q \in Queues, i \in Slots :
        /\ worker[q][i].outcome = "err"
        /\ worker[q][i].pc = "wg_done"
        /\ Len(worker[q][i].calls) = 1
        /\ mainPc = "subscribed"

\* ------------------------------------------------------------- C8
\* C8: with no transport error and handlers that return, the limit is respected
\* at all times, no message is reported twice, and every message handed to a
\* worker comes to have exactly one report call made for it; among the runs are
\* those with limit 2, a batch of 3 on "A" and a batch of 1 on "B".
C8_AllReportedOnce ==
    /\ [](Executing <= option)
    /\ [](\A q \in Queues, i \in Slots :
            /\ Len(worker[q][i].calls) <= 1
            /\ Reported(q, i) => Len(worker[q][i].calls) = 1)
    /\ \A q \in Queues, i \in Slots :
          (worker[q][i].pc = "acquire") ~> (Reported(q, i) /\ Len(worker[q][i].calls) = 1)

\* limit 2, the 3 messages of "A" and the 1 message of "B" in flight together:
\* two handlers run and two workers wait for a permit
C8_Witness ==
    /\ option = 2
    /\ loop["A"].n = 3 /\ loop["B"].n = 1
    /\ Cardinality({qi \in Queues \X Slots : worker[qi[1]][qi[2]].pc = "handling"}) = 2
    /\ Cardinality({qi \in Queues \X Slots : worker[qi[1]][qi[2]].pc = "acquire"}) = 2
    /\ worker["B"][1].pc \in {"acquire", "handling"}

\* ------------------------------------------------------------- C9
\* C9: a SetHandler call with WaitTime < 0 returns an error and leaves the
\* registry as it was; a call with WaitTime >= 0 returns no error and makes the
\* given handler and option the one binding of that queue name, the bindings of
\* the other names staying as they were. No stored binding has a negative
\* WaitTime.
C9_SetHandlerContract ==
    /\ [](\A n \in DOMAIN handlers : handlers[n].WaitTime >= 0)
    /\ [][call'.op = "SetHandler" =>
            IF call'.waitTime < 0
            THEN call'.err # Nil /\ handlers' = handlers
            ELSE /\ call'.err = Nil
                 /\ DOMAIN handlers' = DOMAIN handlers \cup {call'.queueName}
                 /\ handlers'[call'.queueName] =
                       [handler |-> call'.handler, WaitTime |-> call'.waitTime]
                 /\ \A n \in DOMAIN handlers \ {call'.queueName} :
                       handlers'[n] = handlers[n]]_vars

\* a call with WaitTime -1 was rejected for a name that is bound, and the
\* binding it carried is not the one stored
C9_Witness ==
    /\ call.op = "SetHandler"
    /\ call.waitTime < 0
    /\ call.err # Nil
    /\ call.queueName \in DOMAIN handlers
    /\ handlers[call.queueName] # [handler |-> call.handler, WaitTime |-> call.waitTime]

\* ------------------------------------------------------------- C10
\* C10: NewSubscriber with a limit < 1 returns an error and no subscriber (no
\* registry, no permit pool, nothing ever runs); with a limit >= 1 it returns no
\* error and the permit pool has exactly that capacity and is empty; with a limit
\* of 1 at most one worker is ever between acquire and release.
C10_NewSubscriberContract ==
    /\ call.op = "NewSubscriber" =>
          IF call.limit < 1
          THEN call.err # Nil /\ mainPc = "failed"
          ELSE call.err = Nil /\ mainPc = "registering" /\ option = call.limit
               /\ semCap = call.limit /\ semaphore = 0
    /\ mainPc = "failed" =>
          /\ call.op = "NewSubscriber" /\ call.limit < 1
          /\ option = 0 /\ semCap = 0 /\ handlers = <<>>
          /\ spawner = IdleSpawner /\ Executing = 0
    /\ mainPc \notin {"new", "failed"} => (option >= 1 /\ semCap = option)
    /\ option = 1 => Executing <= 1

\* limit 1: the handler of one queue runs while a worker of the other queue
\* waits for the permit
C10_Witness ==
    /\ option = 1
    /\ \E q1 \in Queues, q2 \in Queues, i \in Slots, j \in Slots :
          /\ q1 # q2
          /\ worker[q1][i].pc = "handling"
          /\ worker[q2][j].pc = "acquire"

\* ------------------------------------------------------------- C11
\* a worker whose handler invocation has ended and that still holds its permit
HandlerEnded(q, i) ==
    worker[q][i].pc \in {"report_success", "report_failure", "send_fatal",
                         "send_recovered", "wg_done", "release"}

\* the steps that take such a worker on to its release
WorkerProceeds(q, i) ==
    \/ \E ok \in BOOLEAN : Report(q, i, ok)
    \/ ReturnFromWorker(q, i)
    \/ Done(q, i)
    \/ Release(q, i)

\* C11: a worker that holds a permit and whose handler has ended goes on to
\* release it, whatever the report call returned and also after a recovered
\* panic: it is never left without a step to take while it holds the permit.
C11_PermitAlwaysReleased ==
    \A q \in Queues, i \in Slots : HandlerEnded(q, i) => ENABLED WorkerProceeds(q, i)

\* ------------------------------------------------------------- C12
\* the workers of queue q that have run wgMessage.Done and not yet <-t.semaphore
Releasing(q) == {i \in Slots : worker[q][i].pc = "release"}

\* C12 as stated: a poll loop that has left the batch barrier and is about to
\* fetch has no worker of its batch still holding a permit.
C12_ReleasedBeforeFetch ==
    \A q \in Queues :
        loop[q].pc = "receive" => \A i \in Slots : worker[q][i].pc = "none"

\* C12 amended: a poll loop leaves the batch barrier only when every worker of
\* the batch has run wgMessage.Done, that is after acquire, handle and report;
\* the release of the permit follows Done, can still be outstanding when the
\* next fetch starts, and is then never blocked.
C12_DoneBeforeFetch ==
    /\ [](\A q \in Queues :
            loop[q].pc = "receive" =>
               /\ wg[q] = 0
               /\ \A i \in Slots : worker[q][i].pc \in {"none", "release"})
    /\ [][\A q \in Queues :
            (loop[q].pc = "wait" /\ loop'[q].pc = "receive") =>
               /\ wg[q] = 0
               /\ \A i \in Slots : worker[q][i].pc \in {"none", "release"}
               /\ Cardinality(Releasing(q)) <= semaphore]_vars

\* the loop starts its next fetch while a worker of the batch it left has
\* still to release
C12_Witness ==
    \E q \in Queues :
        /\ loop[q].pc \in {"dispatch", "wait"}
        /\ lingering > 0
        /\ semaphore > 0

\* ------------------------------------------------------------- C13
\* C13 as stated: the error Subscribe returns is the fatal error that occurred
\* earliest.
C13_EarliestReturned ==
    mainPc = "returned" => retval = firstFatal

\* C13 amended: the error Subscribe returns is the fatal error whose send on
\* chFatal met the receive first; it is the earliest fatal error unless the
\* goroutine of the earliest one is still blocked in its send, where it then
\* stays. Until Subscribe returns, the earliest error is among the blocked sends.
C13_FirstDeliveredOrStillBlocked ==
    /\ (mainPc = "returned") =>
          /\ retval # Nil
          /\ firstFatal # Nil
          /\ (retval = firstFatal \/ firstFatal \in PendingErrors)
    /\ (mainPc = "subscribed" /\ firstFatal # Nil) => firstFatal \in PendingErrors
    /\ (mainPc # "returned") => retval = Nil

\* Subscribe has returned a later error while the earliest one is still being
\* sent
C13_Witness ==
    /\ mainPc = "returned"
    /\ retval # firstFatal
    /\ firstFatal \in PendingErrors

\* ------------------------------------------------------------- C14
\* the registry entries whose poll loop goroutine has been started
Started == {q \in Queues : loop[q].pc # "none"}

\* C14 as stated: once the spawner has gone through the registry, every
\* registered queue name has its poll loop.
C14_LoopPerEntry ==
    spawner.pc = "done" => Started = DOMAIN handlers

\* C14 amended: the spawner starts one poll loop for each registry entry it
\* reaches, in the unspecified order of the map, as long as GetQueueID
\* succeeds; when it has ended without error every registered queue name has
\* its loop; at the first GetQueueID error it sends the error and returns, and
\* the failing entry and the entries not yet reached never get a loop.
C14_LoopPerResolvedEntry ==
    /\ Started \subseteq DOMAIN handlers
    /\ spawner.pc # "none" => Started = DOMAIN handlers \ spawner.todo
    /\ (spawner.pc = "done" /\ spawner.err = Nil) => Started = DOMAIN handlers
    /\ spawner.pc = "range" =>
          /\ spawner.todo # {}
          /\ spawner.err = Nil
          /\ ENABLED (\E q \in Queues : SpawnPollLoop(q, TRUE))
    /\ spawner.err # Nil =>
          /\ spawner.pc \in {"send_fatal", "done"}
          /\ spawner.err.q \in spawner.todo
          /\ loop[spawner.err.q].pc = "none"

\* GetQueueID failed for the second entry: one loop runs, the other entry has
\* none and the spawner has ended
C14_Witness ==
    /\ spawner.pc = "done"
    /\ spawner.err # Nil
    /\ Started # {}
    /\ Started # DOMAIN handlers

\* ------------------------------------------------------------- C15
\* a queue whose poll loop runs and none of whose goroutines has met an error:
\* the error Subscribe returned is not one of its own and none of its
\* goroutines is sending one
MeetsNoError(q) ==
    /\ loop[q].pc \in {"receive", "dispatch", "wait"}
    /\ retval.q # q
    /\ \A i \in Slots : worker[q][i].pc \notin {"send_fatal", "send_recovered"}

\* every permit is held by a worker blocked in a send on chFatal that nobody
\* will receive: none comes free again
PermitsLost ==
    /\ mainPc = "returned"
    /\ semaphore = semCap
    /\ lingering = 0
    /\ \A qi \in Holding :
          worker[qi[1]][qi[2]].pc \in {"send_fatal", "send_recovered"}

\* C15: after Subscribe has returned the first fatal error, the poll loop of a
\* queue that itself meets no error keeps fetching and dispatching: its workers
\* are never left waiting for a permit that cannot come free.
C15_OthersKeepRunning ==
    \A q \in Queues :
        (mainPc = "returned" /\ MeetsNoError(q)) =>
            ~(PermitsLost /\ \E i \in Slots : worker[q][i].pc = "acquire")

\* ------------------------------------------------------------- C16
\* the poll loop of q has had a failing fetch: it is in, or past, its send
FetchFailed(q) == loop[q].pc \in {"send_fatal", "stopped"}

\* C16: when ReceiveMessages returns an error for a queue, the loop sends that
\* error on chFatal (it is what Subscribe returns when this send is the one
\* received), starts no worker for that fetch, and from then on neither
\* dispatches nor fetches again.
C16_FetchErrorEndsLoop ==
    /\ [](\A q \in Queues :
            loop[q].pc = "send_fatal" => Err("ReceiveMessages", q) \in PendingErrors)
    /\ [][\A q \in Queues :
            (loop[q].pc = "receive" /\ FetchFailed(q)') =>
               /\ loop'[q].pc = "send_fatal"
               /\ worker'[q] = worker[q]
               /\ wg'[q] = wg[q]
               /\ \A i \in Slots : worker[q][i].pc \in {"none", "release"}]_vars
    /\ [][\A q \in Queues :
            (loop[q].pc = "send_fatal" /\ loop'[q].pc # "send_fatal") =>
               /\ loop'[q].pc = "stopped"
               /\ mainPc = "subscribed"
               /\ retval' = Err("ReceiveMessages", q)]_vars
    /\ [][\A q \in Queues :
            FetchFailed(q) =>
               /\ FetchFailed(q)'
               /\ wg'[q] = wg[q]
               /\ \A i \in Slots : worker'[q][i].pc \in {"none", "release"}]_vars

\* the fetch of one queue failed and its loop has ended, while the loop of the
\* other queue has a batch in progress
C16_Witness ==
    \E q \in Queues, p \in Queues :
        /\ loop[q].pc = "stopped"
        /\ retval = Err("ReceiveMessages", q)
        /\ loop[p].pc = "wait"
        /\ wg[p] > 0

\* ------------------------------------------------------------- C17
\* a worker, of the current or of an earlier batch, is at its <-t.semaphore
AtRelease == lingering > 0 \/ \E q \in Queues, i \in Slots : worker[q][i].pc = "release"

\* C17: the tokens in t.semaphore are exactly the workers that have acquired
\* and not yet released; their number stays between 0 and the limit; and a
\* worker that comes to its release always finds a token to take out.
C17_PermitAccounting ==
    /\ semaphore = Executing
    /\ 0 <= semaphore
    /\ semaphore <= semCap
    /\ semCap = option
    /\ lingering >= 0
    /\ AtRelease => semaphore > 0
    /\ \A q \in Queues, i \in Slots :
          worker[q][i].pc = "release" => ENABLED Release(q, i)
    /\ lingering > 0 => ENABLED ReleaseLingering

\* the channel is full, with workers of the current batch and of an earlier
\* batch among the holders
C17_Witness ==
    /\ semaphore = semCap
    /\ semCap > 1
    /\ lingering > 0
    /\ \E q \in Queues, i \in Slots : worker[q][i].pc = "handling"

\* ------------------------------------------------------------- C18
\* the messages of queue q that are fetched and handed to a worker which has
\* not yet run wgMessage.Done
Undrained(q) == {i \in Slots : ~Drained(q, i)}

\* the messages of the last fetch of q not yet handed to a worker
Undispatched(q) ==
    IF loop[q].pc = "dispatch" THEN loop[q].next..loop[q].n ELSE {}

RECURSIVE SumOver(_, _)
SumOver(f, S) ==
    IF S = {} THEN 0
    ELSE LET x == CHOOSE y \in S : TRUE IN f[x] + SumOver(f, S \ {x})

\* C18: the undrained messages of a queue all belong to its most recent fetch
\* (they are indices of that batch, counted by its wgMessage, and a new fetch
\* starts only with none left); over all queues there are at most
\* (registered queues) x (maximum batch size) of them, whatever the limit.
C18_OneBatchPerQueue ==
    /\ \A q \in Queues :
         /\ Undrained(q) \subseteq 1..loop[q].n
         /\ Undrained(q) \cap Undispatched(q) = {}
         /\ Cardinality(Undrained(q)) = wg[q]
         /\ loop[q].n <= MaxBatch
         /\ loop[q].pc \in {"none", "receive", "send_fatal", "stopped"} => Undrained(q) = {}
         /\ q \notin DOMAIN handlers => Undrained(q) = {}
    /\ SumOver([q \in Queues |-> Cardinality(Undrained(q) \cup Undispatched(q))], Queues)
          <= Cardinality(DOMAIN handlers) * MaxBatch

\* every registered queue has a full batch undrained, more messages than
\* there are permits
C18_Witness ==
    /\ DOMAIN handlers = Queues
    /\ \A q \in Queues : Cardinality(Undrained(q)) = MaxBatch
    /\ SumOver([q \in Queues |-> Cardinality(Undrained(q))], Queues) > option

\* ------------------------------------------------------------- C19
\* queue q is registered and Subscribe has been called
Subscribed(q) == mainPc = "subscribed" /\ q \in DOMAIN handlers

\* C19: with handlers that return, a transport that never fails and fair
\* permit acquisition, the poll loop of every registered queue fetches again
\* and again (it keeps coming to its fetch and keeps getting past it) for every
\* limit >= 1 and every registry; a worker waits for a permit only while its
\* loop is inside the batch, which the loop keeps leaving, and it leaves the
\* wait only by acquiring: every waiting worker gets its permit.
C19_NoStarvation ==
    /\ \A q \in Queues :
         /\ []<>(Subscribed(q) => loop[q].pc = "receive")
         /\ []<>(loop[q].pc # "receive")
    /\ [](\A q \in Queues, i \in Slots :
            worker[q][i].pc = "acquire" => loop[q].pc \in {"dispatch", "wait"})
    /\ [][\A q \in Queues, i \in Slots :
            (worker[q][i].pc = "acquire" /\ worker'[q][i].pc # "acquire") =>
               (worker'[q][i].pc = "handling" /\ semaphore' = semaphore + 1)]_vars

\* both queues have a worker waiting for a permit while the pool is exhausted
\* by their siblings
C19_Witness ==
    /\ semaphore = semCap
    /\ semCap >= 1
    /\ \E q \in Queues, p \in Queues :
          /\ q # p
          /\ loop[q].pc = "wait"
          /\ \E i \in BatchSlots : worker[q][i].pc = "acquire"
          /\ \E j \in BatchSlots : worker[p][j].pc \in HoldingPcs

====
